---- MODULE Spec2Model ----
(***************************************************************************)
(* Model of the skrelief estimators SURF, SURFStar and MultiSURF           *)
(* (src/skrelief/surf.py, surfstar.py, multisurf.py).                      *)
(*                                                                         *)
(* The three classes share one fit/transform body and differ only in the   *)
(* Julia kernel that fit calls.  An estimator is modelled by its           *)
(* attributes (n_features_to_select, dist_func, f_type, weights, rank),    *)
(* the position of a running fit call (pc) and the outcome of the most     *)
(* recent call (ret).  A data matrix is abstracted to its shape: a number  *)
(* of rows and the sequence of its column identities <<1, ..., m>>.        *)
(***************************************************************************)
EXTENDS Integers, Sequences, FiniteSets

VARIABLES
  alg,                   \* the class of the estimator
  n_features_to_select,  \* attribute set by __init__
  dist_func,             \* attribute set by __init__
  f_type,                \* attribute set by __init__
  weights,               \* attribute set by fit (NoAttr before)
  rank,                  \* attribute set by fit (NoAttr before)
  pc,                    \* "idle", or "ranking": fit is between its two assignments
  kernel_out,            \* history: what the most recent kernel call returned
  hist,                  \* history of the fit calls (see NoHist)
  ret                    \* the outcome of the most recent call (see Ret)

vars == <<alg, n_features_to_select, dist_func, f_type,
          weights, rank, pc, kernel_out, hist, ret>>

config == <<alg, dist_func, f_type>>

(* ---------------------------- bounds ----------------------------------- *)

\* largest number of features (columns) of a dataset
MaxM == 3

\* thresholds n_features_to_select that are tried: 1 .. MaxM + 1, so that
\* k > m happens for every m
MaxK == MaxM + 1

\* numbers of rows of a data matrix handed to transform
RowCounts == {1, 2}

\* feature weights a kernel may return (Relief weights may be negative)
WeightValues == {-1, 1}

(* ---------------------------- constants -------------------------------- *)

\* an attribute that has not been assigned (self.weights / self.rank are
\* not created by __init__); every dataset has at least one feature, so
\* the empty sequence is no weight or rank vector
NoAttr == <<>>

None == "None"

\* the two values of f_type the kernels accept, and one they do not
FTypes == {"continuous", "discrete"}
BadFTypes == {"ordinal"}

\* the constructor calls that are tried, as <<class, dist_func>>: SURF and
\* MultiSURF with their default dist_func (None, and an L1 lambda), and
\* SURFStar with a caller's function
Constructions ==
  {<<"SURF", None>>, <<"SURFStar", "custom">>, <<"MultiSURF", "lambda_L1">>}

Min(a, b) == IF a <= b THEN a ELSE b

(* ------------------- scipy.stats.rankdata(a, 'ordinal') ---------------- *)

\* mutant of Neg: the minus sign is forgotten
NegForgotten(w) == w

\* -self.weights: elementwise negation
Neg(w) == [i \in 1..Len(w) |-> 0 - w[i]]

\* one step of a stable sort: index i is placed behind every index already
\* placed whose key is not greater (equal keys keep their original order)
RECURSIVE InsertStable(_, _, _)
InsertStable(sorted, i, a) ==
  IF sorted = <<>> THEN <<i>>
  ELSE IF a[Head(sorted)] <= a[i]
       THEN <<Head(sorted)>> \o InsertStable(Tail(sorted), i, a)
       ELSE <<i>> \o sorted

\* np.argsort(a, kind='mergesort'): the stable sorting permutation of the
\* first n indices
RECURSIVE ArgSortUpTo(_, _)
ArgSortUpTo(a, n) ==
  IF n = 0 THEN <<>> ELSE InsertStable(ArgSortUpTo(a, n - 1), n, a)

ArgSort(a) == ArgSortUpTo(a, Len(a))

\* mutant of rankdata: method='min', tied values share the lowest rank
rankdataMin(a) ==
  [i \in 1..Len(a) |-> 1 + Cardinality({j \in 1..Len(a) : a[j] < a[i]})]

\* rankdata(a, method='ordinal'): inv[sorter] = arange(n); return inv + 1
rankdata(a) ==
  LET sorter == ArgSort(a)
  IN  [i \in 1..Len(a) |-> CHOOSE p \in 1..Len(a) : sorter[p] = i]

\* self.rank = rankdata(-self.weights, method='ordinal')
RankOf(w) == rankdata(Neg(w))

(* --------------------------- transform helpers ------------------------- *)

\* mutant of Mask: < for <=
MaskStrict(r, k) == [i \in 1..Len(r) |-> r[i] < k]

\* msk = self.rank <= self.n_features_to_select
Mask(r, k) == [i \in 1..Len(r) |-> r[i] <= k]

\* data[:, msk] on the column axis: the columns whose mask entry is true,
\* in their original order
RECURSIVE BoolIndexFrom(_, _, _)
BoolIndexFrom(cols, msk, i) ==
  IF i > Len(cols) THEN <<>>
  ELSE (IF msk[i] THEN <<cols[i]>> ELSE <<>>) \o BoolIndexFrom(cols, msk, i + 1)

\* mutant of BoolIndex: the first columns, as many as the mask selects
BoolIndexLeading(cols, msk) ==
  SubSeq(cols, 1, Cardinality({i \in 1..Len(msk) : msk[i]}))

BoolIndex(cols, msk) == BoolIndexFrom(cols, msk, 1)

\* the column identities of an n-by-dm matrix
Columns(dm) == [i \in 1..dm |-> i]

(* ------------------------------ the kernels ---------------------------- *)

\* the Julia function fit calls
KernelOf(a) ==
  CASE a = "SURF" -> "Relief.surf"
    [] a = "SURFStar" -> "Relief.surfstar"
    [] a = "MultiSURF" -> "MultiSURF.multisurf"

\* the distance function the kernel runs with: self.dist_func when it is
\* not None, else the kernel's own default (L1)
KernelDist(df) == IF df # None THEN df ELSE "default_L1"

\* mutant of KernelFType: the keyword is not passed on and the kernel runs
\* with its default
KernelFTypeDefault(ft) == "continuous"

\* the f_type keyword handed to the kernel
KernelFType(ft) == ft

\* what a kernel call may raise: an f_type it does not know is refused
\* before anything is computed; otherwise mismatched shapes or a failing
\* distance computation end the call
KernelRaises(ft) ==
  IF ft \notin FTypes THEN {"ConfigError"} ELSE {"ShapeError", "DistError"}

\* whether the distance function ran in a kernel call that ended with e
\* ("none": the call returned)
KernelDistInvoked(e) == e \in {"none", "DistError"}

\* the weight vectors a kernel call on an m-feature dataset may return
KernelReturns(ft, m) ==
  IF ft \in FTypes THEN [1..m -> WeightValues] ELSE {}

(* ------------------------------- state --------------------------------- *)

\* the outcome of a call: op is the method, exc the exception it raised
\* ("none": it returned, "pending": fit is still running), n and m the
\* shape of the data argument (0 where the call did not get to use it),
\* rows and cols the matrix transform returned, kernel, dist and
\* dist_invoked the kernel call fit made
NoRet ==
  [op |-> "__init__", exc |-> "none", n |-> 0, m |-> 0, rows |-> 0,
   cols |-> <<>>, kernel |-> "-", dist |-> "-", dist_invoked |-> FALSE]

\* the outcome of a fit call on an m-feature dataset, its kernel call
\* having ended with e
FitRet(exc, m, e) ==
  [NoRet EXCEPT !.op = "fit", !.exc = exc, !.m = m,
                !.kernel = KernelOf(alg), !.dist = KernelDist(dist_func),
                !.dist_invoked = KernelDistInvoked(e)]

\* the outcome of a transform call on an n-by-dm matrix
TransformRet(exc, n, dm, rows, cols) ==
  [NoRet EXCEPT !.op = "transform", !.exc = exc, !.n = n, !.m = dm,
                !.rows = rows, !.cols = cols]

SetRet == [NoRet EXCEPT !.op = "set_params"]

\* ever_ok: some fit call has returned; last_ok: the most recent fit call
\* has returned; resized: it has, and it replaced a rank vector of another
\* length
NoHist == [ever_ok |-> FALSE, last_ok |-> FALSE, resized |-> FALSE]

\* __init__ stores its three arguments and nothing else
Init ==
  /\ \E c \in Constructions : alg = c[1] /\ dist_func = c[2]
  /\ n_features_to_select \in 1..MaxK
  /\ f_type \in FTypes \cup BadFTypes
  /\ weights = NoAttr
  /\ rank = NoAttr
  /\ pc = "idle"
  /\ kernel_out = NoAttr
  /\ hist = NoHist
  /\ ret = NoRet

(* ------------------------------- fit ----------------------------------- *)

\* fit, the kernel call raises e: the assignment to self.weights is not
\* reached and the exception leaves fit
FitKernelRaise(e) ==
  /\ pc = "idle"
  /\ e \in KernelRaises(KernelFType(f_type))
  /\ ret' = FitRet(e, 0, e)
  /\ hist' = [hist EXCEPT !.last_ok = FALSE, !.resized = FALSE]
  /\ UNCHANGED <<config, n_features_to_select, weights, rank, pc, kernel_out>>

\* fit, the kernel call on an m-feature dataset returns w: self.weights = w
FitKernelReturn(m, w) ==
  /\ pc = "idle"
  /\ w \in KernelReturns(KernelFType(f_type), m)
  /\ weights' = w
  /\ kernel_out' = w
  /\ pc' = "ranking"
  /\ ret' = FitRet("pending", m, "none")
  /\ hist' = [hist EXCEPT !.last_ok = FALSE, !.resized = FALSE]
  /\ UNCHANGED <<config, n_features_to_select, rank>>

\* mutant of FitRank: a rank that exists is kept
FitRankCached ==
  /\ pc = "ranking"
  /\ rank' = IF rank = NoAttr THEN RankOf(weights) ELSE rank
  /\ pc' = "idle"
  /\ ret' = [ret EXCEPT !.exc = "none"]
  /\ hist' = [ever_ok |-> TRUE, last_ok |-> TRUE,
              resized |-> rank # NoAttr /\ Len(rank) # ret.m]
  /\ UNCHANGED <<config, n_features_to_select, weights, kernel_out>>

\* fit, second statement: self.rank = rankdata(-self.weights, 'ordinal');
\* return self
FitRank ==
  /\ pc = "ranking"
  /\ rank' = RankOf(weights)
  /\ pc' = "idle"
  /\ ret' = [ret EXCEPT !.exc = "none"]
  /\ hist' = [ever_ok |-> TRUE, last_ok |-> TRUE,
              resized |-> rank # NoAttr /\ Len(rank) # ret.m]
  /\ UNCHANGED <<config, n_features_to_select, weights, kernel_out>>

\* fit, second statement raises (an allocation failure or an interrupt
\* inside rankdata): self.rank is not assigned, self.weights already is
FitRankRaise ==
  /\ pc = "ranking"
  /\ pc' = "idle"
  /\ ret' = [ret EXCEPT !.exc = "RankError"]
  /\ hist' = [hist EXCEPT !.last_ok = FALSE, !.resized = FALSE]
  /\ UNCHANGED <<config, n_features_to_select, weights, rank, kernel_out>>

(* ----------------------------- transform ------------------------------- *)

\* the outcome of transform(data) on an n-by-dm matrix: reading self.rank
\* fails when fit never assigned it; a boolean mask of another length than
\* the column axis is refused by the indexing
TransformResult(n, dm) ==
  IF rank = NoAttr THEN TransformRet("AttributeError", 0, dm, 0, <<>>)
  ELSE IF Len(rank) # dm THEN TransformRet("IndexError", 0, dm, 0, <<>>)
  ELSE TransformRet("none", n, dm, n,
                    BoolIndex(Columns(dm), Mask(rank, n_features_to_select)))

\* mutant of Transform: an estimator without a rank passes the data through
TransformUnfitted(n, dm) ==
  /\ pc = "idle"
  /\ ret' = IF rank = NoAttr
              THEN TransformRet("none", n, dm, n, Columns(dm))
              ELSE TransformResult(n, dm)
  /\ UNCHANGED <<config, n_features_to_select, weights, rank, pc, kernel_out, hist>>

\* mutant of Transform: the threshold is clamped to the number of features
\* and stored
TransformClamping(n, dm) ==
  /\ pc = "idle"
  /\ ret' = TransformResult(n, dm)
  /\ n_features_to_select' =
       IF rank = NoAttr THEN n_features_to_select
       ELSE Min(n_features_to_select, Len(rank))
  /\ UNCHANGED <<config, weights, rank, pc, kernel_out, hist>>

\* transform(data) on an n-by-dm matrix
Transform(n, dm) ==
  /\ pc = "idle"
  /\ ret' = TransformResult(n, dm)
  /\ UNCHANGED <<config, n_features_to_select, weights, rank, pc, kernel_out, hist>>

(* ------------------- attribute assignment / set_params ----------------- *)

\* est.n_features_to_select = k
SetK(k) ==
  /\ pc = "idle"
  /\ k # n_features_to_select
  /\ n_features_to_select' = k
  /\ ret' = SetRet
  /\ UNCHANGED <<config, weights, rank, pc, kernel_out, hist>>

\* est.f_type = ft
SetFType(ft) ==
  /\ pc = "idle"
  /\ ft # f_type
  /\ f_type' = ft
  /\ ret' = SetRet
  /\ UNCHANGED <<alg, dist_func, n_features_to_select, weights, rank, pc, kernel_out, hist>>

Next ==
  \/ \E e \in {"ConfigError", "ShapeError", "DistError"} : FitKernelRaise(e)
  \/ \E m \in 1..MaxM : \E w \in [1..m -> WeightValues] : FitKernelReturn(m, w)
  \/ FitRank
  \/ FitRankRaise
  \/ \E n \in RowCounts : \E dm \in 1..MaxM : Transform(n, dm)
  \/ \E k \in 1..MaxK : SetK(k)
  \/ \E ft \in FTypes \cup BadFTypes : SetFType(ft)

Spec == Init /\ [][Next]_vars

(* ============================== claims ================================= *)

Range(q) == {q[i] : i \in 1..Len(q)}

FitReturned == ret.op = "fit" /\ ret.exc = "none"

TransformReturned == ret.op = "transform" /\ ret.exc = "none"

\* r is a permutation of 1..m
IsPermutation(r, m) ==
  /\ Len(r) = m
  /\ \A i \in 1..m : r[i] \in 1..m
  /\ \A i, j \in 1..m : i # j => r[i] # r[j]

\* C1: when fit has returned on an m-feature dataset, the stored rank is a
\* permutation of 1..m, whatever weights the kernel returned
C1_RankIsPermutation ==
  FitReturned => IsPermutation(rank, ret.m)

\* a fit of MultiSURF that returned on three features with repeated weights
C1_Witness ==
  /\ FitReturned
  /\ alg = "MultiSURF"
  /\ ret.m = 3
  /\ \E i, j \in 1..3 : i # j /\ weights[i] = weights[j]

\* C2: when fit has returned, a feature of greater weight has the smaller
\* rank, among features of equal weight the one of smaller index has the
\* smaller rank, the ranks of features of equal weight are consecutive, and
\* rank 1 is held by a feature of greatest weight
C2_RankOrder ==
  FitReturned =>
    LET F == 1..Len(weights)
    IN  /\ \A f, g \in F : weights[f] > weights[g] => rank[f] < rank[g]
        /\ \A f, g \in F : (weights[f] = weights[g] /\ f < g) => rank[f] < rank[g]
        /\ \A f, g, h \in F :
             (weights[f] = weights[g] /\ rank[f] < rank[h] /\ rank[h] < rank[g])
               => weights[h] = weights[f]
        /\ \A f \in F : rank[f] = 1 => \A g \in F : weights[f] >= weights[g]

\* a fit that returned with a tie between features 1 and 3 and a heavier
\* feature 2 between them
C2_Witness ==
  /\ FitReturned
  /\ Len(weights) = 3
  /\ weights[1] = weights[3]
  /\ weights[2] > weights[1]
  /\ rank = <<2, 1, 3>>

\* C3: a transform that returned on an n-by-m matrix (m the length of the
\* rank of the last fit) returned n rows and min(k, m) columns, and with a
\* rank stored a matrix of m columns is never refused, k > m included
C3_MaskSize ==
  /\ TransformReturned =>
       /\ Len(ret.cols) = Min(n_features_to_select, ret.m)
       /\ ret.rows = ret.n
  /\ (ret.op = "transform" /\ rank # NoAttr /\ ret.m = Len(rank)) => ret.exc = "none"

\* a transform with k greater than the number of features returned all
\* three columns and both rows
C3_Witness ==
  /\ TransformReturned
  /\ ret.m = 3
  /\ n_features_to_select > 3
  /\ ret.cols = <<1, 2, 3>>
  /\ ret.n = 2

\* C4: the columns a transform returned are those of rank <= k, in their
\* original left-to-right order, and when the last fit call returned no
\* dropped column has a greater weight than a returned one
C4_SelectsTopK ==
  TransformReturned =>
    LET kept == Range(ret.cols)
        all  == 1..ret.m
    IN  /\ kept = {c \in all : rank[c] <= n_features_to_select}
        /\ \A i, j \in 1..Len(ret.cols) : i < j => ret.cols[i] < ret.cols[j]
        /\ hist.last_ok =>
             \A c \in kept : \A d \in all \ kept : weights[c] >= weights[d]

\* a transform kept columns 1 and 3 of three and dropped the lighter
\* column 2
C4_Witness ==
  /\ TransformReturned
  /\ hist.last_ok
  /\ ret.cols = <<1, 3>>
  /\ weights[2] < weights[1]

\* C5: a transform on an estimator on which no fit call has returned raises
\* AttributeError and returns no data
C5_TransformBeforeFit ==
  (ret.op = "transform" /\ ~hist.ever_ok) =>
    /\ ret.exc = "AttributeError"
    /\ ret.rows = 0
    /\ ret.cols = <<>>

\* a transform after the only fit call raised in its ranking step
C5_Witness ==
  /\ ret.op = "transform"
  /\ ~hist.ever_ok
  /\ weights # NoAttr
  /\ ret.exc = "AttributeError"

\* C6: when the most recent fit call returned, weights is what its kernel
\* call returned, rank is the rank of exactly that vector, and a transform
\* that follows selects by that rank
C6_RefitOverwrites ==
  (pc = "idle" /\ hist.last_ok) =>
    /\ weights = kernel_out
    /\ rank = RankOf(kernel_out)
    /\ FitReturned => Len(weights) = ret.m /\ Len(rank) = ret.m
    /\ TransformReturned =>
         ret.cols = BoolIndex(Columns(Len(kernel_out)),
                              Mask(RankOf(kernel_out), n_features_to_select))

\* a transform after a fit that replaced a rank vector of another length
C6_Witness ==
  /\ TransformReturned
  /\ hist.last_ok
  /\ hist.resized
  /\ Len(rank) = 2

\* C7: between calls, weights and rank are both absent or both the result
\* of one fit call (the rank being the rank of the weights)
C7_NoPartialState ==
  pc = "idle" =>
    \/ weights = NoAttr /\ rank = NoAttr
    \/ weights # NoAttr /\ rank # NoAttr /\ rank = RankOf(weights)

C9_LengthsAlways ==
  (weights # NoAttr \/ rank # NoAttr) =>
    /\ weights # NoAttr
    /\ rank # NoAttr
    /\ Len(weights) = Len(rank)
    /\ (ret.op = "fit" /\ ret.m > 0) => Len(rank) = ret.m

\* C10: a transform step changes no attribute of the estimator; a transform
\* right after a transform that returned, on a matrix of as many columns,
\* returns the same columns; a transform selects by the threshold as it is
\* at that call; and changing the threshold changes neither weights nor
\* rank
C10_TransformReadOnly ==
  [][/\ (pc = "idle" /\ ret'.op = "transform") =>
          /\ weights' = weights
          /\ rank' = rank
          /\ n_features_to_select' = n_features_to_select
          /\ dist_func' = dist_func
          /\ f_type' = f_type
          /\ pc' = "idle"
     /\ (TransformReturned /\ ret'.op = "transform" /\ ret'.m = ret.m) =>
          /\ ret'.exc = "none"
          /\ ret'.cols = ret.cols
     /\ (ret'.op = "transform" /\ ret'.exc = "none") =>
          Range(ret'.cols) = {c \in 1..Len(rank) : rank[c] <= n_features_to_select}
     /\ (n_features_to_select' # n_features_to_select) =>
          /\ weights' = weights
          /\ rank' = rank
          /\ pc' = "idle"]_vars

\* a transform that returned one column of three while the estimator still
\* holds the weights and rank of its fit
C10_Witness ==
  /\ TransformReturned
  /\ hist.last_ok
  /\ n_features_to_select = 1
  /\ Len(rank) = 3
  /\ Len(ret.cols) = 1
  /\ rank = RankOf(weights)

====
